---- MODULE Spec2Model ----
(***************************************************************************)
(* PAPR virtualized interrupt system (XICS) of hw/xics.c: the presentation *)
(* layer (ICP, one presenter per virtual processor) and the source layer   *)
(* (ICS, one state per interrupt source), with the hypercall and RTAS      *)
(* entry points that drive them.                                           *)
(*                                                                         *)
(* The controller state is carried in a record m with the fields           *)
(*   ss     presenters, ss[server] = struct icp_server_state               *)
(*   irqs   sources, irqs[srcno] = struct ics_irq_state                    *)
(*   nr_servers, nr_irqs   the sizes of the two arrays                     *)
(*   trace  the calls, pin commands and out-of-array accesses made by the  *)
(*          current handler, in program order                              *)
(*   calls  the calls of icp_irq, ics_reject and ics_eoi made by the       *)
(*          current handler, in the order they return, each with the       *)
(*          presenters and sources it found and the ones it left           *)
(* Every C function is an operator from m (and its arguments) to the m it  *)
(* leaves behind.  The 32-bit xirr word is kept as its two fields, cppr    *)
(* (bits 31..24) and xisr (bits 23..0).                                    *)
(***************************************************************************)
EXTENDS Integers, Sequences, FiniteSets, TLC

\* ------------------------------------------------------------- bounds
\* machines explored by Spec: one presenter and 1 .. MaxIrqs sources, at most
\* MaxLsi of them level-sensitive
MaxIrqs == 2
MaxLsi == 1
\* presenters of the machines on which single calls are applied (SpecXive,
\* SpecReject)
MaxServers == 2
\* priorities 0 .. MaxPrio are used next to the masked value 0xff
MaxPrio == 1
\* edges and presentations counted per source (SpecCount)
MaxFires == 2
MaxDelivered == 3
\* direct calls of ics_reject applied in a row (SpecReject)
MaxApplied == 2

\* ---------------------------------------------------------- constants
offset == 16
XICS_IPI == 2
MASKED == 255
H_SUCCESS == 0
H_PARAMETER == -4

XICS_STATUS_ASSERTED == "ASSERTED"
XICS_STATUS_SENT == "SENT"
XICS_STATUS_REJECTED == "REJECTED"
XICS_STATUS_MASKED_PENDING == "MASKED_PENDING"

\* uint8_t priorities: the most favoured values and the masked sentinel
Prio == (0 .. MaxPrio) \cup {MASKED}

VARIABLES ss, irqs, nr_servers, nr_irqs, counting, fires, delivered, accepts,
          applied, snap

vars == <<ss, irqs, nr_servers, nr_irqs, counting, fires, delivered, accepts,
          applied, snap>>

Servers == 0 .. (nr_servers - 1)
Srcs == 0 .. (nr_irqs - 1)
ValidNr == offset .. (offset + nr_irqs - 1)
\* XISR values a guest can hand to H_EOI: nothing, the IPI, a source
EoiNr == {0, XICS_IPI} \cup ValidNr
\* interrupt numbers a guest can hand to RTAS: valid ones and one on each side
RtasNr == ValidNr \cup {offset - 1, offset + nr_irqs}
RtasServer == 0 .. nr_servers
\* priorities a guest can hand to ibm,set-xive: a byte, or more than a byte
RtasPrio == Prio \cup {256}
\* (nargs, nret) a guest can hand to an RTAS call that takes a arguments and
\* gives r results: the right counts, a wrong nargs and a wrong nret
RtasCounts(a, r) == {<<a, r>>, <<a + 1, r>>, <<a, r + 1>>}

\* ---------------------------------------------------------------- trace
Ev(ev, server, nr, pri, cppr) ==
    [ev |-> ev, server |-> server, nr |-> nr, priority |-> pri, cppr |-> cppr]

Log(m, e) == [m EXCEPT !.trace = Append(@, e)]

\* the call of fn entered with state m has returned leaving r
Called(fn, server, nr, priority, m, r) ==
    [r EXCEPT !.calls = Append(@, [fn |-> fn, server |-> server, nr |-> nr,
                                   priority |-> priority,
                                   pre |-> [ss |-> m.ss, irqs |-> m.irqs],
                                   post |-> [ss |-> r.ss, irqs |-> r.irqs]])]

XISR(p) == p.xisr
CPPR(p) == p.cppr

\* qemu_irq_raise(ss->output), recorded with the presenter's registers
qemu_irq_raise(m, server) ==
    Log([m EXCEPT !.ss[server].output = 1],
        Ev("raise", server, XISR(m.ss[server]),
           m.ss[server].pending_priority, CPPR(m.ss[server])))

qemu_irq_lower(m, server) ==
    Log([m EXCEPT !.ss[server].output = 0],
        Ev("lower", server, XISR(m.ss[server]),
           m.ss[server].pending_priority, CPPR(m.ss[server])))

\* ------------------------------------------------------------------ ICS
ics_valid_irq(m, nr) == (nr >= offset) /\ (nr < offset + m.nr_irqs)

\* ics_reject that flips REJECTED instead of setting it
ics_reject_toggles(m, nr) ==
    LET m1 == Log(m, Ev("ics_reject", -1, nr, -1, -1)) IN
    IF ics_valid_irq(m, nr)
    THEN [m1 EXCEPT !.irqs[nr - offset].status =
              (IF XICS_STATUS_REJECTED \in @
               THEN @ \ {XICS_STATUS_REJECTED}
               ELSE @ \cup {XICS_STATUS_REJECTED}) \ {XICS_STATUS_SENT}]
    ELSE Log(m1, Ev("oob_store", -1, nr, -1, -1))

\* The store goes to ics->irqs[nr - offset] with no range check.  For nr
\* outside [offset, offset + nr_irqs) it lands in memory in front of or behind
\* the source array: no source changes, what else does is not part of m, and
\* the access is recorded.
ics_reject(m, nr) ==
    LET m1 == Log(m, Ev("ics_reject", -1, nr, -1, -1)) IN
    Called("ics_reject", -1, nr, -1, m,
           IF ics_valid_irq(m, nr)
           THEN [m1 EXCEPT !.irqs[nr - offset].status =
                     (@ \cup {XICS_STATUS_REJECTED}) \ {XICS_STATUS_SENT}]
           ELSE Log(m1, Ev("oob_store", -1, nr, -1, -1)))

\* ------------------------------------------------------------------ ICP
icp_check_ipi(m, server) ==
    LET p == m.ss[server] IN
    IF XISR(p) # 0 /\ p.pending_priority <= p.mfrr
    THEN m
    ELSE LET m1 == IF XISR(p) # 0 THEN ics_reject(m, XISR(p)) ELSE m
             m2 == [m1 EXCEPT !.ss[server].xisr = XICS_IPI,
                              !.ss[server].pending_priority = p.mfrr]
         IN qemu_irq_raise(m2, server)

\* icp_irq that tests the CPPR only and overwrites whatever is pending
icp_irq_ignores_pending(m, server, nr, priority) ==
    LET p == m.ss[server]
        m0 == Log(m, Ev("icp_irq", server, nr, priority, CPPR(p)))
    IN IF priority >= CPPR(p)
       THEN ics_reject(m0, nr)
       ELSE LET m1 == IF XISR(p) # 0 THEN ics_reject(m0, XISR(p)) ELSE m0
                m2 == [m1 EXCEPT !.ss[server].xisr = nr,
                                 !.ss[server].pending_priority = priority]
            IN qemu_irq_raise(m2, server)

\* icp_irq that records the refused priority as pending_priority
icp_irq_refusal_recorded(m, server, nr, priority) ==
    LET p == m.ss[server]
        m0 == Log(m, Ev("icp_irq", server, nr, priority, CPPR(p)))
    IN Called("icp_irq", server, nr, priority, m,
              IF (priority >= CPPR(p))
                 \/ (XISR(p) # 0 /\ p.pending_priority <= priority)
              THEN ics_reject([m0 EXCEPT !.ss[server].pending_priority = priority],
                              nr)
              ELSE LET m1 == IF XISR(p) # 0 THEN ics_reject(m0, XISR(p)) ELSE m0
                       m2 == [m1 EXCEPT !.ss[server].xisr = nr,
                                        !.ss[server].pending_priority = priority]
                   IN qemu_irq_raise(m2, server))

icp_irq(m, server, nr, priority) ==
    LET p == m.ss[server]
        m0 == Log(m, Ev("icp_irq", server, nr, priority, CPPR(p)))
    IN Called("icp_irq", server, nr, priority, m,
              IF (priority >= CPPR(p))
                 \/ (XISR(p) # 0 /\ p.pending_priority <= priority)
              THEN ics_reject(m0, nr)
              ELSE LET m1 == IF XISR(p) # 0 THEN ics_reject(m0, XISR(p)) ELSE m0
                       m2 == [m1 EXCEPT !.ss[server].xisr = nr,
                                        !.ss[server].pending_priority = priority]
                   IN qemu_irq_raise(m2, server))

resend_msi(m, srcno) ==
    LET irq == m.irqs[srcno] IN
    IF XICS_STATUS_REJECTED \in irq.status
    THEN LET m1 == [m EXCEPT !.irqs[srcno].status = @ \ {XICS_STATUS_REJECTED}]
         IN IF irq.priority # MASKED
            THEN icp_irq(m1, irq.server, srcno + offset, irq.priority)
            ELSE m1
    ELSE m

\* resend_lsi that offers the source without marking it SENT
resend_lsi_not_marked(m, srcno) ==
    LET irq == m.irqs[srcno] IN
    IF irq.priority # MASKED
       /\ XICS_STATUS_ASSERTED \in irq.status
       /\ XICS_STATUS_SENT \notin irq.status
    THEN icp_irq(m, irq.server, srcno + offset, irq.priority)
    ELSE m

resend_lsi(m, srcno) ==
    LET irq == m.irqs[srcno] IN
    IF irq.priority # MASKED
       /\ XICS_STATUS_ASSERTED \in irq.status
       /\ XICS_STATUS_SENT \notin irq.status
    THEN icp_irq([m EXCEPT !.irqs[srcno].status = @ \cup {XICS_STATUS_SENT}],
                 irq.server, srcno + offset, irq.priority)
    ELSE m

RECURSIVE ics_resend_from(_, _)
ics_resend_from(m, i) ==
    IF i >= m.nr_irqs
    THEN m
    ELSE ics_resend_from(IF m.irqs[i].lsi THEN resend_lsi(m, i)
                                          ELSE resend_msi(m, i),
                         i + 1)

ics_resend(m) == ics_resend_from(Log(m, Ev("ics_resend", -1, -1, -1, -1)), 0)

icp_resend(m, server) ==
    LET p == m.ss[server]
        m0 == Log(m, Ev("icp_resend", server, -1, -1, CPPR(p)))
        m1 == IF p.mfrr < CPPR(p) THEN icp_check_ipi(m0, server) ELSE m0
    IN ics_resend(m1)

icp_set_cppr(m, server, cppr) ==
    LET p == m.ss[server]
        old_cppr == CPPR(p)
        m1 == [m EXCEPT !.ss[server].cppr = cppr]
    IN IF cppr < old_cppr
       THEN IF XISR(p) # 0 /\ cppr <= p.pending_priority
            THEN LET old_xisr == XISR(p)
                     m2 == [m1 EXCEPT !.ss[server].xisr = 0]
                 IN ics_reject(qemu_irq_lower(m2, server), old_xisr)
            ELSE m1
       ELSE IF XISR(p) = 0
            THEN icp_resend(m1, server)
            ELSE m1

\* icp_set_mfrr without the mfrr < CPPR test
icp_set_mfrr_unguarded(m, server, mfrr) ==
    icp_check_ipi([m EXCEPT !.ss[server].mfrr = mfrr], server)

\* icp_set_mfrr that compares the mfrr it replaces with the CPPR
icp_set_mfrr_tests_old(m, server, mfrr) ==
    LET m1 == [m EXCEPT !.ss[server].mfrr = mfrr] IN
    IF m.ss[server].mfrr < CPPR(m.ss[server])
    THEN icp_check_ipi(m1, server)
    ELSE m1

icp_set_mfrr(m, server, mfrr) ==
    LET m1 == [m EXCEPT !.ss[server].mfrr = mfrr] IN
    IF mfrr < CPPR(m.ss[server])
    THEN icp_check_ipi(m1, server)
    ELSE m1

\* icp_accept that returns the CPPR it has just installed, not the one held
icp_accept_returns_new(m, server) ==
    LET p == m.ss[server]
        m1 == qemu_irq_lower(m, server)
    IN [m |-> [m1 EXCEPT !.ss[server].cppr = p.pending_priority,
                         !.ss[server].xisr = 0],
        xirr |-> [cppr |-> p.pending_priority, xisr |-> XISR(p)]]

\* icp_accept that leaves the XISR in place
icp_accept_keeps_xisr(m, server) ==
    LET p == m.ss[server]
        m1 == qemu_irq_lower(m, server)
    IN [m |-> [m1 EXCEPT !.ss[server].cppr = p.pending_priority],
        xirr |-> [cppr |-> CPPR(p), xisr |-> XISR(p)]]

\* icp_accept with the qemu_irq_lower left out
icp_accept_pin_left_high(m, server) ==
    LET p == m.ss[server]
    IN [m |-> [m EXCEPT !.ss[server].cppr = p.pending_priority,
                        !.ss[server].xisr = 0],
        xirr |-> [cppr |-> CPPR(p), xisr |-> XISR(p)]]

\* returns the state left behind and the xirr handed to the guest
icp_accept(m, server) ==
    LET p == m.ss[server]
        m1 == qemu_irq_lower(m, server)
    IN [m |-> [m1 EXCEPT !.ss[server].cppr = p.pending_priority,
                         !.ss[server].xisr = 0],
        xirr |-> [cppr |-> CPPR(p), xisr |-> XISR(p)]]

\* ics_eoi that clears ASSERTED together with SENT
ics_eoi_clears_asserted(m, nr, strayLsi) ==
    LET m1 == Log(m, Ev("ics_eoi", -1, nr, -1, -1)) IN
    Called("ics_eoi", -1, nr, -1, m,
           IF ics_valid_irq(m, nr)
           THEN IF m.irqs[nr - offset].lsi
                THEN [m1 EXCEPT !.irqs[nr - offset].status =
                          @ \ {XICS_STATUS_SENT, XICS_STATUS_ASSERTED}]
                ELSE m1
           ELSE LET m2 == Log(m1, Ev("oob_load", -1, nr, -1, -1)) IN
                IF strayLsi
                THEN Log(m2, Ev("oob_store", -1, nr, -1, -1))
                ELSE m2)

\* For nr outside the array irq->lsi is read from memory that is not a source
\* state: strayLsi is whatever value is found there, and decides whether the
\* store is made.
ics_eoi(m, nr, strayLsi) ==
    LET m1 == Log(m, Ev("ics_eoi", -1, nr, -1, -1)) IN
    Called("ics_eoi", -1, nr, -1, m,
           IF ics_valid_irq(m, nr)
           THEN IF m.irqs[nr - offset].lsi
                THEN [m1 EXCEPT !.irqs[nr - offset].status = @ \ {XICS_STATUS_SENT}]
                ELSE m1
           ELSE LET m2 == Log(m1, Ev("oob_load", -1, nr, -1, -1)) IN
                IF strayLsi
                THEN Log(m2, Ev("oob_store", -1, nr, -1, -1))
                ELSE m2)

\* icp_eoi that runs the resend against the old CPPR and restores it afterwards
icp_eoi_resends_first(m, server, xirr, strayLsi) ==
    LET m2 == ics_eoi(m, xirr.xisr, strayLsi)
        m3 == IF XISR(m2.ss[server]) = 0 THEN icp_resend(m2, server) ELSE m2
    IN [m3 EXCEPT !.ss[server].cppr = xirr.cppr]

icp_eoi(m, server, xirr, strayLsi) ==
    LET m1 == [m EXCEPT !.ss[server].cppr = xirr.cppr]
        m2 == ics_eoi(m1, xirr.xisr, strayLsi)
    IN IF XISR(m2.ss[server]) = 0
       THEN icp_resend(m2, server)
       ELSE m2

\* set_irq_msi that offers an edge whether the source is masked or not
set_irq_msi_unmasked(m, srcno, val) ==
    LET irq == m.irqs[srcno] IN
    IF val # 0
    THEN icp_irq(m, irq.server, srcno + offset, irq.priority)
    ELSE m

\* ------------------------------------------------- ICS, device and XIVE
set_irq_msi(m, srcno, val) ==
    LET irq == m.irqs[srcno] IN
    IF val # 0
    THEN IF irq.priority = MASKED
         THEN [m EXCEPT !.irqs[srcno].status = @ \cup {XICS_STATUS_MASKED_PENDING}]
         ELSE icp_irq(m, irq.server, srcno + offset, irq.priority)
    ELSE m

set_irq_lsi(m, srcno, val) ==
    LET m1 == IF val # 0
              THEN [m EXCEPT !.irqs[srcno].status = @ \cup {XICS_STATUS_ASSERTED}]
              ELSE [m EXCEPT !.irqs[srcno].status = @ \ {XICS_STATUS_ASSERTED}]
    IN resend_lsi(m1, srcno)

ics_set_irq(m, srcno, val) ==
    IF m.irqs[srcno].lsi
    THEN set_irq_lsi(m, srcno, val)
    ELSE set_irq_msi(m, srcno, val)

\* write_xive_msi that offers the source and leaves MASKED_PENDING set
write_xive_msi_keeps_pending(m, srcno) ==
    LET irq == m.irqs[srcno] IN
    IF XICS_STATUS_MASKED_PENDING \notin irq.status \/ irq.priority = MASKED
    THEN m
    ELSE icp_irq(m, irq.server, srcno + offset, irq.priority)

write_xive_msi(m, srcno) ==
    LET irq == m.irqs[srcno] IN
    IF XICS_STATUS_MASKED_PENDING \notin irq.status \/ irq.priority = MASKED
    THEN m
    ELSE icp_irq([m EXCEPT !.irqs[srcno].status = @ \ {XICS_STATUS_MASKED_PENDING}],
                 irq.server, srcno + offset, irq.priority)

write_xive_lsi(m, srcno) == resend_lsi(m, srcno)

ics_write_xive(m, nr, server, priority, saved_priority) ==
    LET srcno == nr - offset
        m1 == [m EXCEPT !.irqs[srcno].server = server,
                        !.irqs[srcno].priority = priority,
                        !.irqs[srcno].saved_priority = saved_priority]
    IN IF m1.irqs[srcno].lsi
       THEN write_xive_lsi(m1, srcno)
       ELSE write_xive_msi(m1, srcno)

\* rtas_set_xive without the priority > 0xff test
rtas_set_xive_any_priority(m, nargs, nret, nr, server, priority) ==
    IF nargs # 3 \/ nret # 1
    THEN [m |-> m, status |-> -3]
    ELSE IF ~ics_valid_irq(m, nr) \/ server >= m.nr_servers
         THEN [m |-> m, status |-> -3]
         ELSE [m |-> ics_write_xive(m, nr, server, priority, priority),
               status |-> 0]

\* ------------------------------------------------------------------ RTAS
\* each returns the state left behind and the status stored to rets[0]
rtas_set_xive(m, nargs, nret, nr, server, priority) ==
    IF nargs # 3 \/ nret # 1
    THEN [m |-> m, status |-> -3]
    ELSE IF ~ics_valid_irq(m, nr) \/ server >= m.nr_servers \/ priority > 255
         THEN [m |-> m, status |-> -3]
         ELSE [m |-> ics_write_xive(m, nr, server, priority, priority),
               status |-> 0]

\* server and priority are the values stored to rets[1] and rets[2], -1 when
\* nothing is stored there
rtas_get_xive(m, nargs, nret, nr) ==
    IF nargs # 1 \/ nret # 3
    THEN [m |-> m, status |-> -3, server |-> -1, priority |-> -1]
    ELSE IF ~ics_valid_irq(m, nr)
         THEN [m |-> m, status |-> -3, server |-> -1, priority |-> -1]
         ELSE [m |-> m, status |-> 0, server |-> m.irqs[nr - offset].server,
               priority |-> m.irqs[nr - offset].priority]

\* rtas_int_off that saves the new priority instead of the current one
rtas_int_off_forgets(m, nargs, nret, nr) ==
    IF nargs # 1 \/ nret # 1 \/ ~ics_valid_irq(m, nr)
    THEN [m |-> m, status |-> -3]
    ELSE [m |-> ics_write_xive(m, nr, m.irqs[nr - offset].server, MASKED, MASKED),
          status |-> 0]

rtas_int_off(m, nargs, nret, nr) ==
    IF nargs # 1 \/ nret # 1
    THEN [m |-> m, status |-> -3]
    ELSE IF ~ics_valid_irq(m, nr)
         THEN [m |-> m, status |-> -3]
         ELSE [m |-> ics_write_xive(m, nr, m.irqs[nr - offset].server, MASKED,
                                    m.irqs[nr - offset].priority),
               status |-> 0]

rtas_int_on(m, nargs, nret, nr) ==
    IF nargs # 1 \/ nret # 1
    THEN [m |-> m, status |-> -3]
    ELSE IF ~ics_valid_irq(m, nr)
         THEN [m |-> m, status |-> -3]
         ELSE [m |-> ics_write_xive(m, nr, m.irqs[nr - offset].server,
                                    m.irqs[nr - offset].saved_priority,
                                    m.irqs[nr - offset].saved_priority),
               status |-> 0]

\* xics_reset that leaves the status bits of the sources as they are
xics_reset_keeps_status(m) ==
    [m EXCEPT !.ss = [s \in 0 .. (m.nr_servers - 1) |->
                         [xisr |-> 0, cppr |-> 0, pending_priority |-> 0,
                          mfrr |-> 255, output |-> 0]],
              !.irqs = [i \in 0 .. (m.nr_irqs - 1) |->
                         [server |-> 0, status |-> m.irqs[i].status,
                          priority |-> 255, saved_priority |-> 255,
                          lsi |-> m.irqs[i].lsi]]]

\* ----------------------------------------------------- reset and set-up
xics_reset(m) ==
    [m EXCEPT !.ss = [s \in 0 .. (m.nr_servers - 1) |->
                         [xisr |-> 0, cppr |-> 0, pending_priority |-> 0,
                          mfrr |-> 255, output |-> 0]],
              !.irqs = [i \in 0 .. (m.nr_irqs - 1) |->
                         [server |-> 0, status |-> {}, priority |-> 255,
                          saved_priority |-> 255, lsi |-> m.irqs[i].lsi]]]

\* g_malloc0'ed arrays of max_server_num + 1 presenters and nr_irqs sources;
\* lsiOf is the type each source was given by xics_set_irq_type while the
\* machine was built
xics_system_init(servers, irqcount, lsiOf) ==
    [nr_servers |-> servers,
     nr_irqs |-> irqcount,
     ss |-> [s \in 0 .. (servers - 1) |->
                [xisr |-> 0, cppr |-> 0, pending_priority |-> 0,
                 mfrr |-> 0, output |-> 0]],
     irqs |-> [i \in 0 .. (irqcount - 1) |->
                [server |-> 0, status |-> {}, priority |-> 0,
                 saved_priority |-> 0, lsi |-> lsiOf[i]]],
     trace |-> <<>>,
     calls |-> <<>>]

\* ------------------------------------------------------- state machine
Model ==
    [ss |-> ss, irqs |-> irqs, nr_servers |-> nr_servers, nr_irqs |-> nr_irqs,
     trace |-> <<>>, calls |-> <<>>]

NoXirr == [cppr |-> -1, xisr |-> -1]

\* What an entry point leaves behind: its name and arguments, the state m, the
\* status an RTAS call stores to rets[0] (else 0) and the xirr H_XIRR hands to
\* the guest (else NoXirr).  For ibm,get-xive b and c are the server and the
\* priority it stores to rets[1] and rets[2].
Result(op, a, b, c, m, status, xirr) ==
    [op |-> op, a |-> a, b |-> b, c |-> c, m |-> m, status |-> status,
     xirr |-> xirr]

DoSetIrq(srcno, val) ==
    Result("set_irq", srcno, val, -1, ics_set_irq(Model, srcno, val), 0, NoXirr)

DoSetXive(nargs, nret, nr, server, priority) ==
    LET r == rtas_set_xive(Model, nargs, nret, nr, server, priority)
    IN Result("set_xive", nr, server, priority, r.m, r.status, NoXirr)

DoGetXive(nargs, nret, nr) ==
    LET r == rtas_get_xive(Model, nargs, nret, nr)
    IN Result("get_xive", nr, r.server, r.priority, r.m, r.status, NoXirr)

DoIntOff(nargs, nret, nr) ==
    LET r == rtas_int_off(Model, nargs, nret, nr)
    IN Result("int_off", nr, -1, -1, r.m, r.status, NoXirr)

DoIntOn(nargs, nret, nr) ==
    LET r == rtas_int_on(Model, nargs, nret, nr)
    IN Result("int_on", nr, -1, -1, r.m, r.status, NoXirr)

\* h_cppr
DoSetCppr(server, cppr) ==
    Result("set_cppr", server, cppr, -1, icp_set_cppr(Model, server, cppr),
           H_SUCCESS, NoXirr)

\* h_ipi; H_PARAMETER is the status of a server outside the presenter array
DoSetMfrr(server, mfrr) ==
    IF server >= nr_servers
    THEN Result("set_mfrr", server, mfrr, -1, Model, H_PARAMETER, NoXirr)
    ELSE Result("set_mfrr", server, mfrr, -1, icp_set_mfrr(Model, server, mfrr),
                H_SUCCESS, NoXirr)

\* h_xirr
DoAccept(server) ==
    LET r == icp_accept(Model, server)
    IN Result("accept", server, -1, -1, r.m, H_SUCCESS, r.xirr)

\* h_eoi
DoEoi(server, xirr, strayLsi) ==
    Result("eoi", server, xirr.cppr, xirr.xisr,
           icp_eoi(Model, server, xirr, strayLsi), H_SUCCESS, NoXirr)

DoReset == Result("reset", -1, -1, -1, xics_reset(Model), 0, NoXirr)

\* the values irq->lsi can have in ics_eoi: the source's own type is read for
\* a valid nr (strayLsi is not used), anything for an nr outside the array
StrayLsi(nr) == IF ics_valid_irq(Model, nr) THEN {FALSE} ELSE BOOLEAN

\* install what a handler left behind
Install(r) ==
    /\ ss' = r.m.ss
    /\ irqs' = r.m.irqs
    /\ UNCHANGED <<nr_servers, nr_irqs>>

\* the machines explored: (presenters, sources), and the types of the sources
Configs == {<<1, n>> : n \in 1 .. MaxIrqs}
LsiTypes(irqcount) ==
    {lsiOf \in [0 .. (irqcount - 1) -> BOOLEAN] :
        Cardinality({i \in 0 .. (irqcount - 1) : lsiOf[i]}) <= MaxLsi}

NoSnap == [nr |-> -1, ss |-> <<>>, irqs |-> <<>>]

InitMachine(servers, irqcount, lsiOf) ==
    LET m == xics_reset(xics_system_init(servers, irqcount, lsiOf)) IN
    /\ ss = m.ss
    /\ irqs = m.irqs
    /\ nr_servers = m.nr_servers
    /\ nr_irqs = m.nr_irqs
    /\ fires = [i \in 0 .. (irqcount - 1) |-> 0]
    /\ delivered = [i \in 0 .. (irqcount - 1) |-> 0]
    /\ accepts = [i \in 0 .. (irqcount - 1) |-> 0]

Init ==
    /\ \E c \in Configs : \E lsiOf \in LsiTypes(c[2]) :
          InitMachine(c[1], c[2], lsiOf)
    /\ counting = FALSE
    /\ applied = 0
    /\ snap = NoSnap

\* Bookkeeping of SpecCount, per MSI source: edges signalled by the device
\* (fires), presentations made by icp_irq (delivered: it raised the pin with
\* the source as XISR), interrupts taken by the guest through H_XIRR (accepts).
Count(r) ==
    IF counting
    THEN /\ fires' = [i \in Srcs |->
                        IF r.op = "set_irq" /\ r.a = i /\ r.b # 0 /\ ~irqs[i].lsi
                        THEN fires[i] + 1 ELSE fires[i]]
         /\ delivered' = [i \in Srcs |->
                        delivered[i]
                        + Cardinality({k \in DOMAIN r.m.trace :
                                          /\ r.m.trace[k].ev = "raise"
                                          /\ r.m.trace[k].nr = i + offset})]
         /\ accepts' = [i \in Srcs |->
                        IF r.op = "accept" /\ r.xirr.xisr = i + offset
                        THEN accepts[i] + 1 ELSE accepts[i]]
    ELSE UNCHANGED <<fires, delivered, accepts>>

\* one entry point runs to completion
Step(r) ==
    /\ Install(r)
    /\ Count(r)
    /\ UNCHANGED <<counting, applied, snap>>

\* a device toggles its line
SetIrq(srcno, val) == Step(DoSetIrq(srcno, val))

\* ibm,set-xive
SetXive(nargs, nret, nr, server, priority) ==
    Step(DoSetXive(nargs, nret, nr, server, priority))

\* ibm,get-xive
GetXive(nargs, nret, nr) == Step(DoGetXive(nargs, nret, nr))

\* ibm,int-off
IntOff(nargs, nret, nr) == Step(DoIntOff(nargs, nret, nr))

\* ibm,int-on
IntOn(nargs, nret, nr) == Step(DoIntOn(nargs, nret, nr))

\* H_CPPR
SetCppr(server, cppr) == Step(DoSetCppr(server, cppr))

\* H_IPI
SetMfrr(server, mfrr) == Step(DoSetMfrr(server, mfrr))

\* H_XIRR
Accept(server) == Step(DoAccept(server))

\* H_EOI
Eoi(server, xirr, strayLsi) == Step(DoEoi(server, xirr, strayLsi))

\* the machine reset callback
Reset == Step(DoReset)

Next ==
    \/ \E srcno \in Srcs, val \in {0, 1} : SetIrq(srcno, val)
    \/ \E n \in RtasCounts(3, 1), nr \in RtasNr, server \in RtasServer,
          priority \in RtasPrio :
          SetXive(n[1], n[2], nr, server, priority)
    \/ \E n \in RtasCounts(1, 3), nr \in RtasNr : GetXive(n[1], n[2], nr)
    \/ \E n \in RtasCounts(1, 1), nr \in RtasNr : IntOff(n[1], n[2], nr)
    \/ \E n \in RtasCounts(1, 1), nr \in RtasNr : IntOn(n[1], n[2], nr)
    \/ \E server \in Servers, cppr \in Prio : SetCppr(server, cppr)
    \/ \E server \in RtasServer, mfrr \in Prio : SetMfrr(server, mfrr)
    \/ \E server \in Servers : Accept(server)
    \/ \E server \in Servers, c \in Prio, x \in EoiNr :
          \E strayLsi \in StrayLsi(x) : Eoi(server, [cppr |-> c, xisr |-> x], strayLsi)
    \/ Reset

Spec == Init /\ [][Next]_vars

\* ------------------------------------------------- counting deliveries
\* One presenter and one MSI source, with the bookkeeping of Count switched
\* on.  The device signals an edge only while the source is not masked, at
\* most MaxFires times, and at most MaxDelivered presentations are followed.
InitCount ==
    /\ InitMachine(1, 1, [i \in {0} |-> FALSE])
    /\ counting = TRUE
    /\ applied = 0
    /\ snap = NoSnap

Counted ==
    \A i \in Srcs :
        /\ fires'[i] # fires[i] => (fires'[i] <= MaxFires /\ irqs[i].priority # MASKED)
        /\ delivered'[i] <= MaxDelivered

NextCount ==
    \/ \E srcno \in Srcs, val \in {0, 1} : SetIrq(srcno, val) /\ Counted
    \/ \E n \in RtasCounts(3, 1), nr \in RtasNr, server \in RtasServer,
          priority \in RtasPrio :
          SetXive(n[1], n[2], nr, server, priority) /\ Counted
    \/ \E n \in RtasCounts(1, 3), nr \in RtasNr :
          GetXive(n[1], n[2], nr) /\ Counted
    \/ \E n \in RtasCounts(1, 1), nr \in RtasNr :
          IntOff(n[1], n[2], nr) /\ Counted
    \/ \E n \in RtasCounts(1, 1), nr \in RtasNr :
          IntOn(n[1], n[2], nr) /\ Counted
    \/ \E server \in Servers, cppr \in Prio : SetCppr(server, cppr) /\ Counted
    \/ \E server \in RtasServer, mfrr \in Prio : SetMfrr(server, mfrr) /\ Counted
    \/ \E server \in Servers : Accept(server) /\ Counted
    \/ \E server \in Servers, c \in Prio, x \in EoiNr :
          \E strayLsi \in StrayLsi(x) :
              Eoi(server, [cppr |-> c, xisr |-> x], strayLsi) /\ Counted

SpecCount == InitCount /\ [][NextCount]_vars

\* ------------------------------------------------ single calls applied
\* A machine of MaxServers presenters and two sources, one of them in any
\* state a source can be given, on which ibm,int-off and then ibm,int-on are
\* called for that source; snap keeps the state the calls started from.
AnySource(servers) ==
    [server : 0 .. (servers - 1), priority : Prio, saved_priority : Prio,
     status : SUBSET {XICS_STATUS_ASSERTED, XICS_STATUS_SENT,
                      XICS_STATUS_REJECTED, XICS_STATUS_MASKED_PENDING},
     lsi : BOOLEAN]

InitXive ==
    /\ nr_servers = MaxServers
    /\ nr_irqs = 2
    /\ \E cppr \in Prio :
          ss = [s \in 0 .. (MaxServers - 1) |->
                  [xisr |-> 0, cppr |-> cppr, pending_priority |-> 0,
                   mfrr |-> 255, output |-> 0]]
    /\ \E nr \in offset .. (offset + 1), src \in AnySource(MaxServers) :
          /\ irqs = [i \in 0 .. 1 |->
                       IF i = nr - offset
                       THEN src
                       ELSE [server |-> 0, status |-> {}, priority |-> 255,
                             saved_priority |-> 255, lsi |-> FALSE]]
          /\ snap = [nr |-> nr, ss |-> ss, irqs |-> irqs]
    /\ counting = FALSE
    /\ fires = [i \in 0 .. 1 |-> 0]
    /\ delivered = [i \in 0 .. 1 |-> 0]
    /\ accepts = [i \in 0 .. 1 |-> 0]
    /\ applied = 0

XiveOff ==
    /\ applied = 0
    /\ Install(DoIntOff(1, 1, snap.nr))
    /\ applied' = 1
    /\ UNCHANGED <<counting, fires, delivered, accepts, snap>>

XiveOn ==
    /\ applied = 1
    /\ Install(DoIntOn(1, 1, snap.nr))
    /\ applied' = 2
    /\ UNCHANGED <<counting, fires, delivered, accepts, snap>>

NextXive == XiveOff \/ XiveOn

SpecXive == InitXive /\ [][NextXive]_vars

\* A machine of MaxServers presenters and two sources with any status bits,
\* on which ics_reject is called for one valid nr, MaxApplied times in a row.
InitReject ==
    /\ nr_servers = MaxServers
    /\ nr_irqs = 2
    /\ ss = [s \in 0 .. (MaxServers - 1) |->
               [xisr |-> 0, cppr |-> 0, pending_priority |-> 0,
                mfrr |-> 255, output |-> 0]]
    /\ irqs \in [0 .. 1 -> {src \in AnySource(1) :
                              src.priority = MASKED /\ src.saved_priority = MASKED}]
    /\ counting = FALSE
    /\ fires = [i \in 0 .. 1 |-> 0]
    /\ delivered = [i \in 0 .. 1 |-> 0]
    /\ accepts = [i \in 0 .. 1 |-> 0]
    /\ applied = 0
    /\ \E nr \in offset .. (offset + 1) :
          snap = [nr |-> nr, ss |-> ss, irqs |-> irqs]

Reject ==
    /\ applied < MaxApplied
    /\ LET m == ics_reject(Model, snap.nr) IN
       /\ ss' = m.ss
       /\ irqs' = m.irqs
    /\ applied' = applied + 1
    /\ UNCHANGED <<nr_servers, nr_irqs, counting, fires, delivered, accepts, snap>>

NextReject == Reject

SpecReject == InitReject /\ [][NextReject]_vars

\* ------------------------------------------- every call from this state
\* P holds of (some) result of every guest and device entry point, for every
\* argument
GuestAll(P(_)) ==
    /\ \A srcno \in Srcs, val \in {0, 1} : P(DoSetIrq(srcno, val))
    /\ \A n \in RtasCounts(3, 1), nr \in RtasNr, server \in RtasServer,
          priority \in RtasPrio :
          P(DoSetXive(n[1], n[2], nr, server, priority))
    /\ \A n \in RtasCounts(1, 3), nr \in RtasNr : P(DoGetXive(n[1], n[2], nr))
    /\ \A n \in RtasCounts(1, 1), nr \in RtasNr : P(DoIntOff(n[1], n[2], nr))
    /\ \A n \in RtasCounts(1, 1), nr \in RtasNr : P(DoIntOn(n[1], n[2], nr))
    /\ \A server \in Servers, cppr \in Prio : P(DoSetCppr(server, cppr))
    /\ \A server \in RtasServer, mfrr \in Prio : P(DoSetMfrr(server, mfrr))
    /\ \A server \in Servers : P(DoAccept(server))
    /\ \A server \in Servers, c \in Prio, x \in EoiNr :
          \A strayLsi \in StrayLsi(x) :
              P(DoEoi(server, [cppr |-> c, xisr |-> x], strayLsi))

GuestSome(P(_)) ==
    \/ \E srcno \in Srcs, val \in {0, 1} : P(DoSetIrq(srcno, val))
    \/ \E n \in RtasCounts(3, 1), nr \in RtasNr, server \in RtasServer,
          priority \in RtasPrio :
          P(DoSetXive(n[1], n[2], nr, server, priority))
    \/ \E n \in RtasCounts(1, 3), nr \in RtasNr : P(DoGetXive(n[1], n[2], nr))
    \/ \E n \in RtasCounts(1, 1), nr \in RtasNr : P(DoIntOff(n[1], n[2], nr))
    \/ \E n \in RtasCounts(1, 1), nr \in RtasNr : P(DoIntOn(n[1], n[2], nr))
    \/ \E server \in Servers, cppr \in Prio : P(DoSetCppr(server, cppr))
    \/ \E server \in RtasServer, mfrr \in Prio : P(DoSetMfrr(server, mfrr))
    \/ \E server \in Servers : P(DoAccept(server))
    \/ \E server \in Servers, c \in Prio, x \in EoiNr :
          \E strayLsi \in StrayLsi(x) :
              P(DoEoi(server, [cppr |-> c, xisr |-> x], strayLsi))

\* the events of one kind in a handler's trace
Events(m, kind) == {m.trace[k] : k \in {j \in DOMAIN m.trace : m.trace[j].ev = kind}}

\* the calls of one function a handler made
Calls(m, fn) == {m.calls[k] : k \in {j \in DOMAIN m.calls : m.calls[j].fn = fn}}

HasStatus(m, srcno, bit) == bit \in m.irqs[srcno].status

\* ------------------------------------------------------------- claims

\* C1: in every reachable state, for every presenter, XISR is 0 exactly when
\* the output pin is lowered (the pin is raised exactly when XISR is not 0).
C1_PinFollowsXisr ==
    \A s \in Servers : (XISR(ss[s]) = 0) <=> (ss[s].output = 0)

\* an interrupt is presented with the pin raised, and another presenter state
\* has been through an accept (CPPR taken over from pending_priority)
C1_Witness ==
    \E s \in Servers :
        /\ XISR(ss[s]) # 0
        /\ ss[s].output = 1
        /\ ss[s].pending_priority < CPPR(ss[s])
        /\ CPPR(ss[s]) < MASKED

\* C2: every raise of the output pin made by any handler (in icp_irq or
\* icp_check_ipi) installs an XISR that is not 0 with pending_priority below
\* the CPPR the presenter has at that moment.
C2_PriorityGate ==
    LET Gated(r) == \A e \in Events(r.m, "raise") : e.nr # 0 /\ e.priority < e.cppr
    IN GuestAll(Gated) /\ Gated(DoReset)

\* a handler raises the pin for the IPI and another raises it for a source
C2_Witness ==
    LET RaisesIpi(r) == \E e \in Events(r.m, "raise") : e.nr = XICS_IPI
        RaisesSource(r) == \E e \in Events(r.m, "raise") : e.nr >= offset
    IN GuestSome(RaisesIpi) /\ GuestSome(RaisesSource)

\* C3 as the spec states it: a handler that clears REJECTED of an MSI source
\* passes that source to icp_irq; resend_msi on a masked source leaves the
\* status alone.
C3_RejectedOnlyClearedByOffer ==
    LET Offered(r) ==
            \A i \in Srcs :
                (/\ ~irqs[i].lsi
                 /\ HasStatus(Model, i, XICS_STATUS_REJECTED)
                 /\ ~HasStatus(r.m, i, XICS_STATUS_REJECTED))
                => \E e \in Events(r.m, "icp_irq") : e.nr = i + offset
    IN GuestAll(Offered)

\* C5 as the spec states it: ics_reject is only called with an nr inside
\* [offset, offset + nr_irqs).
C5_RejectOnlyValidNr ==
    LET InRange(r) == \A e \in Events(r.m, "ics_reject") : ics_valid_irq(r.m, e.nr)
    IN GuestAll(InRange) /\ InRange(DoReset)

Rejected(i) == IF HasStatus(Model, i, XICS_STATUS_REJECTED) THEN 1 ELSE 0
Presented(i) == Cardinality({s \in Servers : XISR(ss[s]) = i + offset})
Quiescent == \A s \in Servers : XISR(ss[s]) = 0

C8_MaskRoundTrip ==
    applied = 2 =>
        LET i == snap.nr - offset IN
        /\ irqs[i].server = snap.irqs[i].server
        /\ irqs[i].priority = snap.irqs[i].priority

\* both calls were made on an unmasked source routed to the second presenter
\* whose saved_priority differed from its priority
C8_Witness ==
    /\ applied = 2
    /\ LET i == snap.nr - offset IN
       /\ snap.irqs[i].priority # MASKED
       /\ snap.irqs[i].saved_priority # snap.irqs[i].priority
       /\ snap.irqs[i].server = 1
       /\ irqs[i].priority = snap.irqs[i].priority

\* C10: one call of ics_reject(nr) for a valid nr sets REJECTED, clears SENT
\* and changes nothing else (no other bit, field, source or presenter), and a
\* second call in a row leaves the state the first one left.
C10_RejectIdempotent ==
    applied >= 1 =>
        /\ ss = snap.ss
        /\ \A i \in Srcs :
              irqs[i] = IF i = snap.nr - offset
                        THEN [snap.irqs[i] EXCEPT !.status =
                                 (@ \cup {XICS_STATUS_REJECTED}) \ {XICS_STATUS_SENT}]
                        ELSE snap.irqs[i]

\* two calls in a row were made on a source that was ASSERTED, SENT and
\* MASKED_PENDING
C10_Witness ==
    /\ applied = 2
    /\ LET i == snap.nr - offset IN
       /\ snap.irqs[i].status = {XICS_STATUS_ASSERTED, XICS_STATUS_SENT,
                                 XICS_STATUS_MASKED_PENDING}
       /\ irqs[i].status = {XICS_STATUS_ASSERTED, XICS_STATUS_REJECTED,
                            XICS_STATUS_MASKED_PENDING}

\* a source that waits to be offered again by the next resend
Waiting(m, i) ==
    /\ m.irqs[i].priority # MASKED
    /\ IF m.irqs[i].lsi
       THEN HasStatus(m, i, XICS_STATUS_ASSERTED) /\ ~HasStatus(m, i, XICS_STATUS_SENT)
       ELSE HasStatus(m, i, XICS_STATUS_REJECTED)

\* no other ready source of presenter s, and no requested IPI, is more
\* favoured than what s presents
HighestPresented(m, s) ==
    XISR(m.ss[s]) # 0 =>
        /\ \A i \in 0 .. (m.nr_irqs - 1) :
              (i + offset # XISR(m.ss[s]) /\ m.irqs[i].server = s /\ Waiting(m, i))
              => m.irqs[i].priority >= m.ss[s].pending_priority
        /\ (m.ss[s].mfrr < CPPR(m.ss[s]))
              => m.ss[s].pending_priority <= m.ss[s].mfrr

\* C6 as the spec states it: in every reachable state the presented interrupt
\* is the most favoured ready one of its presenter.
C6_HighestAlwaysPresented ==
    \A s \in Servers : HighestPresented(Model, s)

\* C6, amended: when a handler that ran icp_resend for presenter s (set_cppr
\* not lowering the CPPR, or eoi, with no XISR pending) returns, the interrupt
\* s presents is the most favoured ready one: no unmasked source routed to s
\* that waits for replay has a smaller priority than pending_priority(s), and
\* mfrr(s) < CPPR(s) implies pending_priority(s) <= mfrr(s).
C6_HighestAfterResend ==
    LET Highest(r) ==
            \A e \in Events(r.m, "icp_resend") : HighestPresented(r.m, e.server)
    IN GuestAll(Highest)

\* a resend presents a source while another source of the same presenter is
\* left waiting, and a resend presents a source in front of a requested IPI
C6_Witness ==
    LET OneWaits(r) ==
            \E e \in Events(r.m, "icp_resend") :
                /\ XISR(r.m.ss[e.server]) >= offset
                /\ \E i \in Srcs : r.m.irqs[i].server = e.server /\ Waiting(r.m, i)
        BeatsIpi(r) ==
            \E e \in Events(r.m, "icp_resend") :
                /\ XISR(r.m.ss[e.server]) >= offset
                /\ r.m.ss[e.server].mfrr < CPPR(r.m.ss[e.server])
    IN GuestSome(OneWaits) /\ GuestSome(BeatsIpi)

\* an LSI source that is asserted and not masked
LsiReady(m, i) ==
    /\ m.irqs[i].lsi
    /\ HasStatus(m, i, XICS_STATUS_ASSERTED)
    /\ m.irqs[i].priority # MASKED

C9_AcceptClearsPin ==
    \A s \in Servers :
        LET r == DoAccept(s) IN
        r.xirr.xisr # 0 =>
            /\ r.m.ss[s].output = 0
            /\ XISR(r.m.ss[s]) = 0
            /\ r.xirr = [cppr |-> CPPR(ss[s]), xisr |-> XISR(ss[s])]

\* accept is called with a source presented and the pin raised
C9_Witness ==
    \E s \in Servers :
        /\ DoAccept(s).xirr.xisr >= offset
        /\ ss[s].output = 1
        /\ DoAccept(s).m.ss[s].output = 0
        /\ CPPR(ss[s]) # ss[s].pending_priority

\* C11: no handler gives the SENT bit to a source whose priority is 0xff, and
\* icp_irq is never called with priority 0xff or for a source whose priority
\* is 0xff when the call is made; an edge of an MSI source whose priority is
\* 0xff sets MASKED_PENDING, changes nothing else and makes no call.
C11_MaskedNeverSent ==
    LET NotSent(r) ==
            /\ \A c \in Calls(r.m, "icp_irq") :
                  /\ c.priority # MASKED
                  /\ ics_valid_irq(r.m, c.nr)
                  /\ c.pre.irqs[c.nr - offset].priority # MASKED
            /\ \A i \in Srcs :
                  (~HasStatus(Model, i, XICS_STATUS_SENT)
                   /\ HasStatus(r.m, i, XICS_STATUS_SENT))
                  => r.m.irqs[i].priority # MASKED
        MaskedEdge(i) ==
            (~irqs[i].lsi /\ irqs[i].priority = MASKED) =>
                LET r == DoSetIrq(i, 1) IN
                /\ r.m.ss = ss
                /\ r.m.irqs = [irqs EXCEPT ![i].status =
                                  @ \cup {XICS_STATUS_MASKED_PENDING}]
                /\ r.m.trace = <<>>
    IN /\ GuestAll(NotSent)
       /\ NotSent(DoReset)
       /\ \A i \in Srcs : MaskedEdge(i)

\* a masked LSI source is asserted and a handler runs a resend past it, and an
\* edge of a masked MSI source is latched in MASKED_PENDING
C11_Witness ==
    /\ \E i \in Srcs :
          LET Passed(r) == /\ Events(r.m, "ics_resend") # {}
                           /\ r.m.irqs[i].priority = MASKED
                           /\ ~HasStatus(r.m, i, XICS_STATUS_SENT)
          IN /\ irqs[i].lsi
             /\ irqs[i].priority = MASKED
             /\ HasStatus(Model, i, XICS_STATUS_ASSERTED)
             /\ GuestSome(Passed)
    /\ \E i \in Srcs :
          /\ ~irqs[i].lsi
          /\ irqs[i].priority = MASKED
          /\ ~HasStatus(Model, i, XICS_STATUS_MASKED_PENDING)
          /\ HasStatus(DoSetIrq(i, 1).m, i, XICS_STATUS_MASKED_PENDING)

\* every presenter has CPPR 0, nothing presented and the pin lowered
NothingPresented(m) ==
    \A s \in 0 .. (m.nr_servers - 1) :
        CPPR(m.ss[s]) = 0 /\ XISR(m.ss[s]) = 0 /\ m.ss[s].output = 0

\* C12: the reset callback leaves every presenter with xirr 0 (CPPR and XISR),
\* pending_priority 0, mfrr 0xff and the pin lowered, and every source with
\* server 0, no status bit and priority = saved_priority = 0xff, the lsi type
\* unchanged; and from a state in which every CPPR is 0 and nothing is
\* presented (the state reset leaves), a handler that leaves every CPPR at 0
\* raises no pin and presents nothing, so nothing is presented after reset
\* until the guest raises a CPPR above 0.
C12_Reset ==
    LET r == DoReset
        StaysQuiet(g) ==
            (\A s \in Servers : CPPR(g.m.ss[s]) = 0) =>
                NothingPresented(g.m) /\ Events(g.m, "raise") = {}
    IN /\ \A s \in Servers :
             r.m.ss[s] = [xisr |-> 0, cppr |-> 0, pending_priority |-> 0,
                          mfrr |-> MASKED, output |-> 0]
       /\ \A i \in Srcs :
             r.m.irqs[i] = [server |-> 0, status |-> {}, priority |-> MASKED,
                            saved_priority |-> MASKED, lsi |-> irqs[i].lsi]
       /\ r.m.nr_servers = nr_servers /\ r.m.nr_irqs = nr_irqs
       /\ NothingPresented(r.m)
       /\ NothingPresented(Model) => (GuestAll(StaysQuiet) /\ StaysQuiet(DoReset))

\* reset is called with an IPI requested, an LSI source asserted and waiting
\* and another source configured, while every CPPR is still 0 and a handler
\* offers an interrupt that is refused
C12_Witness ==
    LET Refused(g) == /\ Calls(g.m, "icp_irq") # {}
                      /\ NothingPresented(g.m)
    IN /\ NothingPresented(Model)
       /\ \E s \in Servers : ss[s].mfrr = 0
       /\ \E i \in Srcs : /\ irqs[i].lsi
                          /\ irqs[i].priority = 0
                          /\ irqs[i].status = {XICS_STATUS_ASSERTED,
                                               XICS_STATUS_REJECTED}
       /\ \E i \in Srcs : ~irqs[i].lsi /\ irqs[i].saved_priority # MASKED
       /\ DoReset.m.irqs # irqs
       /\ GuestSome(Refused)

\* an RTAS call that was refused: status -3, no source and no presenter
\* changed, nothing called
RtasRefused(r) ==
    /\ r.status = -3
    /\ r.m.ss = ss
    /\ r.m.irqs = irqs
    /\ r.m.trace = <<>>

\* C13: ibm,set-xive with an nr outside [offset, offset + nr_irqs), a server
\* >= nr_servers, a priority > 0xff or wrong nargs/nret, and ibm,get-xive,
\* ibm,int-off, ibm,int-on with such an nr or wrong nargs/nret, store status
\* -3 and change no source and no presenter; with valid arguments they store
\* status 0.
C13_RtasParameterErrors ==
    /\ \A n \in RtasCounts(3, 1), nr \in RtasNr, server \in RtasServer,
          priority \in RtasPrio :
          LET r == DoSetXive(n[1], n[2], nr, server, priority) IN
          IF /\ n = <<3, 1>>
             /\ nr \in ValidNr
             /\ server < nr_servers
             /\ priority <= 255
          THEN r.status = 0
          ELSE RtasRefused(r)
    /\ \A n \in RtasCounts(1, 3), nr \in RtasNr :
          LET r == DoGetXive(n[1], n[2], nr) IN
          IF n = <<1, 3>> /\ nr \in ValidNr
          THEN r.status = 0
          ELSE RtasRefused(r)
    /\ \A n \in RtasCounts(1, 1), nr \in RtasNr :
          LET r == DoIntOff(n[1], n[2], nr) IN
          IF n = <<1, 1>> /\ nr \in ValidNr
          THEN r.status = 0
          ELSE RtasRefused(r)
    /\ \A n \in RtasCounts(1, 1), nr \in RtasNr :
          LET r == DoIntOn(n[1], n[2], nr) IN
          IF n = <<1, 1>> /\ nr \in ValidNr
          THEN r.status = 0
          ELSE RtasRefused(r)

\* with an interrupt presented, calls with valid arguments change a source
\* and calls with one bad argument each are refused
C13_Witness ==
    /\ \E s \in Servers : XISR(ss[s]) # 0
    /\ DoSetXive(3, 1, offset, 0, 0).status = 0
    /\ DoSetXive(3, 1, offset, 0, 0).m.irqs # irqs
    /\ DoIntOff(1, 1, offset).m.irqs # irqs
    /\ DoIntOn(1, 1, offset).status = 0
    /\ DoGetXive(1, 3, offset).status = 0
    /\ RtasRefused(DoSetXive(3, 1, offset, 0, 256))
    /\ RtasRefused(DoSetXive(3, 1, offset, nr_servers, 0))
    /\ RtasRefused(DoSetXive(3, 1, offset + nr_irqs, 0, 0))
    /\ RtasRefused(DoSetXive(4, 1, offset, 0, 0))
    /\ RtasRefused(DoGetXive(1, 4, offset))
    /\ RtasRefused(DoIntOff(1, 1, offset - 1))
    /\ RtasRefused(DoIntOn(2, 1, offset))

\* the call c of icp_irq found a CPPR that does not admit its priority, or an
\* interrupt pending that is at least as favoured
Refusing(c) ==
    LET p == c.pre.ss[c.server] IN
    \/ c.priority >= CPPR(p)
    \/ XISR(p) # 0 /\ p.pending_priority <= c.priority

\* C14: every call icp_irq(s, nr, priority) made with priority >= CPPR(s), or
\* with an XISR pending and pending_priority(s) <= priority, returns with
\* every presenter (xirr, pending_priority, mfrr, pin) as it found it and with
\* source nr REJECTED and not SENT.
C14_RefusalLeavesPresenter ==
    LET Untouched(r) ==
            \A c \in Calls(r.m, "icp_irq") :
                Refusing(c) =>
                    /\ c.post.ss = c.pre.ss
                    /\ ics_valid_irq(r.m, c.nr)
                    /\ XICS_STATUS_REJECTED \in c.post.irqs[c.nr - offset].status
                    /\ XICS_STATUS_SENT \notin c.post.irqs[c.nr - offset].status
    IN GuestAll(Untouched)

\* a call is refused at the CPPR for an LSI source just marked SENT, and a
\* call that the CPPR admits is refused in favour of the pending interrupt
C14_Witness ==
    LET AtCppr(r) ==
            \E c \in Calls(r.m, "icp_irq") :
                /\ c.priority >= CPPR(c.pre.ss[c.server])
                /\ XICS_STATUS_SENT \in c.pre.irqs[c.nr - offset].status
                /\ XICS_STATUS_SENT \notin c.post.irqs[c.nr - offset].status
        AtPending(r) ==
            \E c \in Calls(r.m, "icp_irq") :
                /\ c.priority < CPPR(c.pre.ss[c.server])
                /\ XISR(c.pre.ss[c.server]) # 0
                /\ c.pre.ss[c.server].pending_priority <= c.priority
                /\ c.pre.ss[c.server].output = 1
                /\ XICS_STATUS_REJECTED \in c.post.irqs[c.nr - offset].status
    IN GuestSome(AtCppr) /\ GuestSome(AtPending)

\* the call c of icp_irq found an interrupt pending that is less favoured than
\* the one it brings, which the CPPR admits
Displacing(c) ==
    LET p == c.pre.ss[c.server] IN
    /\ c.priority < CPPR(p)
    /\ XISR(p) # 0
    /\ p.pending_priority > c.priority

\* C15 as the spec states it: every call icp_irq(s, nr, priority) that
\* displaces a pending XISR old returns with the source old REJECTED and not
\* SENT, XISR(s) = nr, pending_priority(s) = priority, CPPR(s) unchanged and
\* the pin raised, and ics_reject(old) was called while old was still the
\* XISR.
C15_Displacement ==
    LET Displaced(r) ==
            \A c \in Calls(r.m, "icp_irq") :
                Displacing(c) =>
                    LET old == XISR(c.pre.ss[c.server]) IN
                    /\ ics_valid_irq(r.m, old)
                    /\ XICS_STATUS_REJECTED \in c.post.irqs[old - offset].status
                    /\ XICS_STATUS_SENT \notin c.post.irqs[old - offset].status
                    /\ XISR(c.post.ss[c.server]) = c.nr
                    /\ c.post.ss[c.server].pending_priority = c.priority
                    /\ CPPR(c.post.ss[c.server]) = CPPR(c.pre.ss[c.server])
                    /\ c.post.ss[c.server].output = 1
                    /\ \E k \in Calls(r.m, "ics_reject") :
                          k.nr = old /\ XISR(k.pre.ss[c.server]) = old
    IN GuestAll(Displaced)

\* source i, left rejected by presenter s, has no rival for the next resend:
\* no IPI is requested that the CPPR c2 admits and that is at least as
\* favoured, and no other source of s waits with a priority at least as
\* favoured
NoRival(m, s, i, c2) ==
    /\ m.ss[s].mfrr >= c2 \/ m.ss[s].mfrr > m.irqs[i].priority
    /\ \A j \in 0 .. (m.nr_irqs - 1) :
          (j # i /\ Waiting(m, j)) => m.irqs[j].priority > m.irqs[i].priority

\* C16 as the spec states it: set_cppr(s, cppr) below the old CPPR with an
\* XISR n pending whose pending_priority >= cppr leaves XISR(s) = 0, the pin
\* lowered, CPPR(s) = cppr and the source n REJECTED and not SENT; with
\* pending_priority < cppr it leaves the XISR and the pin alone; and a
\* set_cppr(s, c2) after the withdrawal, with c2 above the priority of n while
\* n is unmasked (and asserted, if an LSI) and has no rival, presents n again.
C16_CpprLoweringWithdraws ==
    \A s \in Servers, cppr \in Prio :
        LET p == ss[s]
            n == XISR(p)
            r == DoSetCppr(s, cppr)
        IN (cppr < CPPR(p) /\ n # 0) =>
              IF p.pending_priority >= cppr
              THEN /\ XISR(r.m.ss[s]) = 0
                   /\ r.m.ss[s].output = 0
                   /\ CPPR(r.m.ss[s]) = cppr
                   /\ ics_valid_irq(r.m, n)
                   /\ HasStatus(r.m, n - offset, XICS_STATUS_REJECTED)
                   /\ ~HasStatus(r.m, n - offset, XICS_STATUS_SENT)
                   /\ \A c2 \in Prio :
                         (/\ r.m.irqs[n - offset].priority # MASKED
                          /\ r.m.irqs[n - offset].lsi
                                => HasStatus(r.m, n - offset, XICS_STATUS_ASSERTED)
                          /\ r.m.irqs[n - offset].server = s
                          /\ c2 > r.m.irqs[n - offset].priority
                          /\ NoRival(r.m, s, n - offset, c2))
                         => XISR(icp_set_cppr(r.m, s, c2).ss[s]) = n
              ELSE /\ XISR(r.m.ss[s]) = n
                   /\ r.m.ss[s].output = p.output
                   /\ CPPR(r.m.ss[s]) = cppr

\* C17: eoi(s, xirr) leaves CPPR(s) at the CPPR byte of xirr; with an XISR
\* pending it leaves the XISR alone and runs no resend; with none it runs one
\* resend, which finds that CPPR already in place, as does every icp_irq the
\* resend makes for s; hence with XISR(s) = 0 at the call and an unmasked MSI
\* source routed to s that is REJECTED with a priority below that CPPR, s
\* presents an interrupt on return, with pending_priority(s) < CPPR(s).
C17_EoiRestoresCppr ==
    \A s \in Servers, c \in Prio, x \in EoiNr :
        \A strayLsi \in StrayLsi(x) :
            LET r == DoEoi(s, [cppr |-> c, xisr |-> x], strayLsi) IN
            /\ CPPR(r.m.ss[s]) = c
            /\ XISR(ss[s]) # 0 =>
                  /\ XISR(r.m.ss[s]) = XISR(ss[s])
                  /\ Events(r.m, "icp_resend") = {}
            /\ XISR(ss[s]) = 0 =>
                  /\ \E e \in Events(r.m, "icp_resend") : e.server = s
                  /\ \A e \in Events(r.m, "icp_resend") : e.server = s /\ e.cppr = c
                  /\ \A e \in Events(r.m, "icp_irq") : e.server = s => e.cppr = c
            /\ (/\ XISR(ss[s]) = 0
                /\ \E i \in Srcs :
                      /\ ~irqs[i].lsi
                      /\ irqs[i].server = s
                      /\ HasStatus(Model, i, XICS_STATUS_REJECTED)
                      /\ irqs[i].priority < c)
               => /\ XISR(r.m.ss[s]) # 0
                  /\ r.m.ss[s].pending_priority < c

\* an MSI source refused earlier waits REJECTED below a CPPR that does not
\* admit it, and the eoi of another source with a CPPR byte of 0xff presents
\* it again
C17_Witness ==
    \E s \in Servers, i \in Srcs, j \in Srcs :
        /\ i # j
        /\ ~irqs[i].lsi
        /\ irqs[i].server = s
        /\ HasStatus(Model, i, XICS_STATUS_REJECTED)
        /\ XISR(ss[s]) = 0
        /\ CPPR(ss[s]) <= irqs[i].priority
        /\ LET r == DoEoi(s, [cppr |-> MASKED, xisr |-> j + offset], FALSE) IN
           /\ XISR(r.m.ss[s]) = i + offset
           /\ ~HasStatus(r.m, i, XICS_STATUS_REJECTED)
           /\ r.m.ss[s].output = 1

\* C18: set_mfrr(s, mfrr) always stores mfrr(s); if mfrr < CPPR(s) and no XISR
\* is pending or pending_priority(s) > mfrr, it leaves XISR(s) = XICS_IPI,
\* pending_priority(s) = mfrr and the pin raised; otherwise XISR(s),
\* pending_priority(s) and the pin are as before.  CPPR(s) never changes.
C18_IpiViaMfrr ==
    \A s \in Servers, mfrr \in Prio :
        LET p == ss[s]
            q == DoSetMfrr(s, mfrr).m.ss[s]
        IN /\ q.mfrr = mfrr
           /\ CPPR(q) = CPPR(p)
           /\ IF mfrr < CPPR(p) /\ (XISR(p) = 0 \/ p.pending_priority > mfrr)
              THEN /\ XISR(q) = XICS_IPI
                   /\ q.pending_priority = mfrr
                   /\ q.output = 1
              ELSE /\ XISR(q) = XISR(p)
                   /\ q.pending_priority = p.pending_priority
                   /\ q.output = p.output

\* with a source presented at priority 1, an mfrr of 0 puts the IPI in its
\* place and an mfrr of 1 leaves it presented
C18_Witness ==
    \E s \in Servers :
        /\ XISR(ss[s]) >= offset
        /\ ss[s].pending_priority = 1
        /\ XISR(DoSetMfrr(s, 0).m.ss[s]) = XICS_IPI
        /\ DoSetMfrr(s, 0).m.ss[s].pending_priority = 0
        /\ XISR(DoSetMfrr(s, 1).m.ss[s]) = XISR(ss[s])
        /\ DoSetMfrr(s, 1).m.ss[s].mfrr = 1

\* the number of calls of icp_irq a handler made
IrqCalls(m) == Cardinality({k \in DOMAIN m.calls : m.calls[k].fn = "icp_irq"})

\* what ics_write_xive, run by the handler that left r, did for MSI source i
MaskedPendingReplayed(r, i) ==
    IF HasStatus(Model, i, XICS_STATUS_MASKED_PENDING)
       /\ r.m.irqs[i].priority # MASKED
    THEN /\ ~HasStatus(r.m, i, XICS_STATUS_MASKED_PENDING)
         /\ IrqCalls(r.m) = 1
         /\ \A c \in Calls(r.m, "icp_irq") :
               /\ c.nr = i + offset
               /\ c.server = r.m.irqs[i].server
               /\ c.priority = r.m.irqs[i].priority
               /\ ~HasStatus(c.pre, i, XICS_STATUS_MASKED_PENDING)
         /\ \/ XISR(r.m.ss[r.m.irqs[i].server]) = i + offset
            \/ HasStatus(r.m, i, XICS_STATUS_REJECTED)
    ELSE /\ IrqCalls(r.m) = 0
         /\ \A j \in Srcs : r.m.irqs[j].status = irqs[j].status
         /\ r.m.ss = ss

\* C19: for an MSI source, a write_xive (ibm,set-xive, ibm,int-on, ibm,int-off
\* with valid arguments) that finds MASKED_PENDING set and leaves priority
\* other than 0xff clears MASKED_PENDING and calls icp_irq exactly once, for
\* that source at its new server and priority, so that the source ends
\* presented as XISR or REJECTED; a write_xive that leaves priority 0xff, or
\* finds MASKED_PENDING clear, calls icp_irq for no source and leaves every
\* status as it was.
C19_MaskedPendingReplay ==
    \A i \in Srcs :
        ~irqs[i].lsi =>
            /\ \A server \in Servers, priority \in Prio :
                  MaskedPendingReplayed(DoSetXive(3, 1, i + offset, server, priority), i)
            /\ MaskedPendingReplayed(DoIntOn(1, 1, i + offset), i)
            /\ MaskedPendingReplayed(DoIntOff(1, 1, i + offset), i)

\* an edge is latched on a masked MSI source: ibm,int-on presents it,
\* ibm,set-xive with a priority the CPPR does not admit leaves it REJECTED,
\* ibm,int-off leaves it latched
C19_Witness ==
    \E i \in Srcs :
        /\ ~irqs[i].lsi
        /\ irqs[i].priority = MASKED
        /\ HasStatus(Model, i, XICS_STATUS_MASKED_PENDING)
        /\ LET r == DoIntOn(1, 1, i + offset) IN
           /\ XISR(r.m.ss[irqs[i].server]) = i + offset
           /\ ~HasStatus(r.m, i, XICS_STATUS_MASKED_PENDING)
        /\ LET r == DoSetXive(3, 1, i + offset, 0, 1) IN
           /\ HasStatus(r.m, i, XICS_STATUS_REJECTED)
           /\ ~HasStatus(r.m, i, XICS_STATUS_MASKED_PENDING)
        /\ HasStatus(DoIntOff(1, 1, i + offset).m, i, XICS_STATUS_MASKED_PENDING)

\* the positions in a handler's trace of the events of one kind for source i
EventsAt(m, kind, i) ==
    {k \in DOMAIN m.trace : m.trace[k].ev = kind /\ m.trace[k].nr = i + offset}

\* C20: every ics_eoi(nr) for a valid nr clears SENT and nothing else if the
\* source is an LSI, and changes nothing if it is an MSI; an LSI source is
\* passed to icp_irq only if SENT was clear when the handler began and it was
\* not offered before in the handler, or if ics_eoi or ics_reject was called
\* for it since it was last offered; and a resend that finds an LSI source
\* asserted, not masked and with SENT clear (from the start, or since the
\* ics_eoi of the same handler) passes it to icp_irq.
C20_EoiClosesDelivery ==
    LET Closes(r) ==
            \A c \in Calls(r.m, "ics_eoi") :
                ics_valid_irq(r.m, c.nr) =>
                    /\ c.post.ss = c.pre.ss
                    /\ c.post.irqs =
                          IF c.pre.irqs[c.nr - offset].lsi
                          THEN [c.pre.irqs EXCEPT ![c.nr - offset].status =
                                   @ \ {XICS_STATUS_SENT}]
                          ELSE c.pre.irqs
        OfferedOnce(r) ==
            \A i \in Srcs :
                irqs[i].lsi =>
                    \A k \in EventsAt(r.m, "icp_irq", i) :
                        LET cleared == {j \in EventsAt(r.m, "ics_eoi", i)
                                              \cup EventsAt(r.m, "ics_reject", i) :
                                           j < k}
                            offered == {j \in EventsAt(r.m, "icp_irq", i) : j < k}
                        IN IF offered = {}
                           THEN ~HasStatus(Model, i, XICS_STATUS_SENT) \/ cleared # {}
                           ELSE \A j \in offered : \E h \in cleared : h > j
        OfferedAgain(r) ==
            \A i \in Srcs :
                (/\ Events(r.m, "ics_resend") # {}
                 /\ LsiReady(Model, i)
                 /\ \/ ~HasStatus(Model, i, XICS_STATUS_SENT)
                    \/ EventsAt(r.m, "ics_eoi", i) # {})
                => EventsAt(r.m, "icp_irq", i) # {}
        Closed(r) == Closes(r) /\ OfferedOnce(r) /\ OfferedAgain(r)
    IN GuestAll(Closed)

\* an LSI source that was sent and accepted is still asserted: its eoi clears
\* SENT and the resend of that eoi presents it again; the eoi of an MSI source
\* whose status is not empty is made as well
C20_Witness ==
    \E s \in Servers, i \in Srcs, j \in Srcs :
        /\ irqs[i].lsi
        /\ LsiReady(Model, i)
        /\ HasStatus(Model, i, XICS_STATUS_SENT)
        /\ XISR(ss[s]) = 0
        /\ LET r == DoEoi(s, [cppr |-> MASKED, xisr |-> i + offset], FALSE) IN
           /\ \E c \in Calls(r.m, "ics_eoi") :
                 /\ c.nr = i + offset
                 /\ ~HasStatus(c.post, i, XICS_STATUS_SENT)
           /\ EventsAt(r.m, "icp_irq", i) # {}
           /\ XISR(r.m.ss[s]) = i + offset
           /\ HasStatus(r.m, i, XICS_STATUS_SENT)
        /\ ~irqs[j].lsi
        /\ irqs[j].status # {}
        /\ Calls(DoEoi(s, [cppr |-> 0, xisr |-> j + offset], FALSE).m, "ics_eoi") # {}

\* C21 as the spec states it: in every reachable state, for every presenter
\* s, XISR(s) # 0 implies pending_priority(s) < CPPR(s), so that accept never
\* returns an interrupt that is not strictly more favored than the CPPR.
C21_NothingPendingBelowPriority ==
    \A s \in Servers :
        /\ XISR(ss[s]) # 0 => ss[s].pending_priority < CPPR(ss[s])
        /\ LET r == DoAccept(s)
           IN r.xirr.xisr # 0 => ss[s].pending_priority < r.xirr.cppr

\* C22 as the spec states it: accept(s) in a state with XISR(s) = 0 returns a
\* value whose XISR field is 0 and leaves CPPR(s) unchanged.
C22_IdleAcceptHarmless ==
    \A s \in Servers :
        XISR(ss[s]) = 0 =>
            LET r == DoAccept(s)
            IN /\ r.xirr.xisr = 0
               /\ CPPR(r.m.ss[s]) = CPPR(ss[s])

\* C23 as the spec states it: when the guest hands to eoi a value that accept
\* returned, ics_eoi is called only with an nr inside [offset, offset +
\* nr_irqs), whether the accept returned a source, the IPI or XISR 0.
C23_EoiOfAcceptedInRange ==
    \A s \in Servers, strayLsi \in BOOLEAN :
        LET a == icp_accept(Model, s)
            m == icp_eoi(a.m, s, a.xirr, strayLsi)
        IN \A e \in Events(m, "ics_eoi") : ics_valid_irq(m, e.nr)

\* k consecutive ibm,int-off calls for nr, from m
RECURSIVE IntOffs(_, _, _)
IntOffs(m, nr, k) ==
    IF k = 0 THEN m ELSE IntOffs(rtas_int_off(m, 1, 1, nr).m, nr, k - 1)

\* C24 as the spec states it: for every valid nr, k >= 1 consecutive
\* int-off(nr) calls followed by one int-on(nr) restore the priority the source
\* had before the first int-off, and a second int-off changes nothing of
\* (server, priority, saved_priority).
C24_RepeatedMaskKeepsPriority ==
    \A nr \in ValidNr, k \in 1 .. MaxApplied :
        LET i == nr - offset
            off == IntOffs(Model, nr, k)
            again == rtas_int_off(off, 1, 1, nr).m
            on == rtas_int_on(off, 1, 1, nr).m
        IN /\ on.irqs[i].priority = irqs[i].priority
           /\ again.irqs[i].server = off.irqs[i].server
           /\ again.irqs[i].priority = off.irqs[i].priority
           /\ again.irqs[i].saved_priority = off.irqs[i].saved_priority

\* C25 as the spec states it: in every reachable state, if XISR(s) is the
\* number of a source, that source is not masked (priority # 0xFF), so accept
\* never returns the number of a source that is masked at that moment.
C25_MaskedNeverPresented ==
    \A s \in Servers :
        /\ ics_valid_irq(Model, XISR(ss[s])) =>
              irqs[XISR(ss[s]) - offset].priority # MASKED
        /\ LET n == DoAccept(s).xirr.xisr
           IN ics_valid_irq(Model, n) => irqs[n - offset].priority # MASKED

====
